---- MODULE Spec2Model ----
(***************************************************************************)
(* Model of quantum_psi: the Psi class (src/src/quantum_psi/_core.py) and  *)
(* the plotting helpers (src/src/quantum_psi/graph/_graph.py and the older *)
(* src/src/quantum_psi/_graph.py).                                         *)
(*                                                                         *)
(* Numbers.  A real number is an exact fraction <<p, q>> in lowest terms   *)
(* with q > 0.  q = 0 encodes the IEEE values numpy produces on a division *)
(* by zero: <<1,0>> = +inf, <<-1,0>> = -inf, <<0,0>> = nan.  Rounding of   *)
(* floating point is not modelled.                                         *)
(*                                                                         *)
(* Attributes.  Each attribute of a Psi object (n, l, ml, ms, const) is a  *)
(* record [kind, elems, parts]:                                            *)
(*   kind = "scalar" : a Python/numpy scalar, elems = <<x>>                *)
(*   kind = "array"  : a 1-D numeric numpy array, elems = <<x1,...,xk>>    *)
(*   kind = "object" : a 1-D numpy array of dtype object holding the two   *)
(*                     attribute values in parts (what numpy < 1.24 builds *)
(*                     from two operands of different shape)               *)
(***************************************************************************)
EXTENDS Integers, Sequences, FiniteSets, TLC

VARIABLES numpy, heap, res, fn, steps, data

vars == <<numpy, heap, res, fn, steps, data>>

(***************************************************************************)
(* Bounds of the model.                                                    *)
(***************************************************************************)
\* number of times a run binds the name p to a new state
MaxAssign == 2
\* largest number of samples handed to clean_data
MaxLen == 3

(***************************************************************************)
(* Exact arithmetic on fractions, with the IEEE special values.            *)
(***************************************************************************)
Abs(x) == IF x < 0 THEN -x ELSE x

Sign(x) == IF x < 0 THEN -1 ELSE IF x > 0 THEN 1 ELSE 0

RECURSIVE GCD(_, _)
GCD(a, b) == IF b = 0 THEN a ELSE GCD(b, a % b)

RNorm(p, q) ==
    IF q = 0 THEN <<Sign(p), 0>>
    ELSE LET g == GCD(Abs(p), Abs(q))
         IN  <<(Sign(q) * p) \div g, Abs(q) \div g>>

RInt(i) == <<i, 1>>

NaN == <<0, 0>>

IsFinite(a) == a[2] # 0

RMul(a, b) == RNorm(a[1] * b[1], a[2] * b[2])

RDiv(a, b) == RNorm(a[1] * b[2], a[2] * b[1])

RNeg(a) == <<-a[1], a[2]>>

RAdd(a, b) ==
    IF IsFinite(a) /\ IsFinite(b) THEN RNorm(a[1] * b[2] + b[1] * a[2], a[2] * b[2])
    ELSE IF IsFinite(a) THEN b
    ELSE IF IsFinite(b) THEN a
    ELSE IF a = b THEN a ELSE NaN

RLess(a, b) ==
    IF a = NaN \/ b = NaN THEN FALSE
    ELSE IF IsFinite(a) /\ IsFinite(b) THEN a[1] * b[2] < b[1] * a[2]
    ELSE a # b /\ (a = <<-1, 0>> \/ b = <<1, 0>>)

RECURSIVE RSum(_)
RSum(s) == IF s = <<>> THEN RInt(0) ELSE RAdd(Head(s), RSum(Tail(s)))


(***************************************************************************)
(* Attribute values and the numpy operations the class applies to them.    *)
(***************************************************************************)
Scalar(x) == [kind |-> "scalar", elems |-> <<x>>, parts |-> <<>>]

Array(s) == [kind |-> "array", elems |-> s, parts |-> <<>>]

ObjectArray(ps) == [kind |-> "object", elems |-> <<>>, parts |-> ps]

\* the outcome of a numpy call that raised instead of returning
Raised == [kind |-> "raise", elems |-> <<>>, parts |-> <<>>]

NoValue == [kind |-> "none", elems |-> <<>>, parts |-> <<>>]

\* hasattr(x, '__iter__'): true of numpy arrays, false of Python and numpy scalars
hasattr_iter(x) == x.kind \in {"array", "object"}

\* len(x) of an array
np_len(x) == IF x.kind = "object" THEN Len(x.parts) ELSE Len(x.elems)

\* np.array((x, y)).flatten(): two scalars give a 2-element array, two arrays of
\* equal length k give shape (2,k) flattened row by row; operands of different
\* shape raise ValueError under numpy >= 1.24 and give a 2-element array of
\* dtype object (which flatten leaves as it is) under older numpy.
np_array_flatten(x, y) ==
    IF x.kind = "scalar" /\ y.kind = "scalar" THEN Array(x.elems \o y.elems)
    ELSE IF x.kind = "array" /\ y.kind = "array" /\ Len(x.elems) = Len(y.elems)
         THEN Array(x.elems \o y.elems)
    ELSE IF numpy = "strict" THEN Raised
    ELSE ObjectArray(<<x, y>>)

\* x * k, x / k and -x broadcast the scalar over the elements
np_mul(x, k) == [x EXCEPT !.elems = [i \in DOMAIN x.elems |-> RMul(x.elems[i], k)]]

np_truediv(x, k) == [x EXCEPT !.elems = [i \in DOMAIN x.elems |-> RDiv(x.elems[i], k)]]

np_negative(x) == [x EXCEPT !.elems = [i \in DOMAIN x.elems |-> RNeg(x.elems[i])]]

\* x ** 2
np_square(x) == [x EXCEPT !.elems = [i \in DOMAIN x.elems |-> RMul(x.elems[i], x.elems[i])]]

\* np.sum(x): the sum of the elements, the value itself for a scalar
np_sum(x) == RSum(x.elems)

(***************************************************************************)
(* class Psi                                                               *)
(***************************************************************************)
\* Psi.__init__: the five attributes are stored verbatim
Psi(n, l, ml, ms, const) == [n |-> n, l |-> l, ml |-> ml, ms |-> ms, const |-> const]

NoPsi == Psi(NoValue, NoValue, NoValue, NoValue, NoValue)

\* what a method call does: it returns a Psi, or raises
Return(p) == [status |-> "ok", psi |-> p]

Raise(e) == [status |-> e, psi |-> NoPsi]

\* an operand of a binary operator: its Python type, and its value (a number
\* for the numeric types, a Psi for type "Psi")
Num(t, v) == [type |-> t, v |-> v, psi |-> NoPsi]

Obj(p) == [type |-> "Psi", v |-> NaN, psi |-> p]

Other(t) == [type |-> t, v |-> NaN, psi |-> NoPsi]

NoOperand == Other("none")

\* Psi.__mul__
mul_unchecked(self, other) ==
    Return(Psi(self.n, self.l, self.ml, self.ms, np_mul(self.const, other.v)))

mul_int_only(self, other) ==
    IF other.type # "int" THEN Raise("Exception")
    ELSE Return(Psi(self.n, self.l, self.ml, self.ms, np_mul(self.const, other.v)))

mul(self, other) ==
    IF other.type # "int" /\ other.type # "float" THEN Raise("Exception")
    ELSE Return(Psi(self.n, self.l, self.ml, self.ms, np_mul(self.const, other.v)))

\* "{:.3f}".format(x): the sign, and the nearest number of thousandths of |x|
\* (a tie goes to the even one); inf and nan are spelled out
Formatted(sign, milli, special) == [sign |-> sign, milli |-> milli, special |-> special]

format_3f_truncated(x) ==
    IF x = NaN THEN Formatted("", 0, "nan")
    ELSE IF ~IsFinite(x) THEN Formatted(IF x[1] < 0 THEN "-" ELSE "", 0, "inf")
    ELSE Formatted(IF x[1] < 0 THEN "-" ELSE "", (1000 * Abs(x[1])) \div x[2], "")

format_3f(x) ==
    IF x = NaN THEN Formatted("", 0, "nan")
    ELSE IF ~IsFinite(x) THEN Formatted(IF x[1] < 0 THEN "-" ELSE "", 0, "inf")
    ELSE LET whole == (1000 * Abs(x[1])) \div x[2]
             rest == (1000 * Abs(x[1])) % x[2]
             milli == IF 2 * rest < x[2] THEN whole
                      ELSE IF 2 * rest > x[2] THEN whole + 1
                      ELSE IF whole % 2 = 0 THEN whole ELSE whole + 1
         IN  Formatted(IF x[1] < 0 THEN "-" ELSE "", milli, "")

\* np.abs(x)
np_abs(x) == <<Abs(x[1]), x[2]>>

\* operator + str_ket.format(const, n, l, ml, ms): one displayed term
Ket(operator, const, n, l, ml, ms) ==
    [joiner |-> operator, number |-> format_3f(const), n |-> n, l |-> l,
     ml |-> ml, ms |-> ms]

Text(out) == [status |-> "ok", out |-> out]

\* Psi.__repr__: the text as the sequence of its displayed terms.  On an array of
\* dtype object the comparison const[i] < 0 of an array element has no truth
\* value: ValueError.
repr(self) ==
    IF self.const.kind = "object" THEN [status |-> "ValueError", out |-> <<>>]
    ELSE IF hasattr_iter(self.const)
    THEN LET const == self.const.elems
             output[i \in 0..Len(const)] ==
                 IF i = 0 THEN <<>>
                 ELSE IF RLess(const[i], RInt(0))
                      THEN Append(output[i - 1],
                                  Ket(IF i # 1 THEN " - " ELSE "- ", np_abs(const[i]),
                                      self.n.elems[i], self.l.elems[i],
                                      self.ml.elems[i], self.ms.elems[i]))
                 ELSE IF RLess(RInt(0), const[i])
                      THEN Append(output[i - 1],
                                  Ket(IF i # 1 THEN " + " ELSE "", np_abs(const[i]),
                                      self.n.elems[i], self.l.elems[i],
                                      self.ml.elems[i], self.ms.elems[i]))
                 ELSE output[i - 1]
         IN  Text(output[Len(const)])
    ELSE Text(<<Ket("", self.const.elems[1], self.n.elems[1], self.l.elems[1],
                    self.ml.elems[1], self.ms.elems[1])>>)

\* Psi.__rmul__
rmul(self, other) == mul(self, other)

\* other * self for an operand that is not a Psi: the operand's own __mul__ does
\* not know Psi and Python calls Psi.__rmul__(self, other); a numpy scalar
\* multiplies as np.multiply on dtype object, whose inner loop multiplies the
\* Python float of the same value by the Psi
left_mul(other, self) ==
    IF other.type = "float64" THEN rmul(self, Num("float", other.v))
    ELSE rmul(self, other)

\* Psi.__truediv__
truediv(self, other) ==
    IF other.type # "int" /\ other.type # "float" THEN Raise("Exception")
    ELSE Return(Psi(self.n, self.l, self.ml, self.ms, np_truediv(self.const, other.v)))

\* the five np.array((self.x, other.x)).flatten() of __add__ and __sub__; the
\* first one that raises ends the call
Joined(n, l, ml, ms, const) ==
    IF "raise" \in {n.kind, l.kind, ml.kind, ms.kind, const.kind} THEN Raise("ValueError")
    ELSE Return(Psi(n, l, ml, ms, const))

\* Psi.__add__
add(self, other) ==
    IF other.type # "Psi" THEN Raise("Exception")
    ELSE Joined(np_array_flatten(self.n, other.psi.n),
                np_array_flatten(self.l, other.psi.l),
                np_array_flatten(self.ml, other.psi.ml),
                np_array_flatten(self.ms, other.psi.ms),
                np_array_flatten(self.const, other.psi.const))

\* Psi.__sub__
sub_not_negated(self, other) == add(self, other)

sub(self, other) ==
    IF other.type # "Psi" THEN Raise("Exception")
    ELSE Joined(np_array_flatten(self.n, other.psi.n),
                np_array_flatten(self.l, other.psi.l),
                np_array_flatten(self.ml, other.psi.ml),
                np_array_flatten(self.ms, other.psi.ms),
                np_array_flatten(self.const, np_negative(other.psi.const)))

\* Psi.normalize: const / np.sum(const ** 2)
normalize_no_square(self) ==
    Psi(self.n, self.l, self.ml, self.ms, np_truediv(self.const, np_sum(self.const)))

normalize(self) ==
    Psi(self.n, self.l, self.ml, self.ms,
        np_truediv(self.const, np_sum(np_square(self.const))))

\* Psi.r_bohr.  np.equal(*self.n) is np.equal(x1, x2) for two terms; with three
\* the third is taken as the out argument and with one, four or more the number
\* of positional arguments is wrong: TypeError either way.
BohrValue(v) == [status |-> "ok", val |-> v]

BohrRaise(e) == [status |-> e, val |-> NaN]

r_bohr(self, a0) ==
    IF hasattr_iter(self.const)
    THEN IF np_len(self.n) # 2 THEN BohrRaise("TypeError")
         ELSE IF self.n.elems[1] # self.n.elems[2] THEN BohrRaise("Exception")
         ELSE BohrValue(RMul(RInt(self.n.elems[1] * self.n.elems[1]), a0))
    ELSE BohrValue(RMul(RInt(self.n.elems[1] * self.n.elems[1]), a0))


(***************************************************************************)
(* The evaluators.  A returned callable is a record of what the lambda     *)
(* captured: a Psi object of its own (self, after `self = self.normalize()`*)
(* rebound the local name) or the caller's object (ref, the name of the    *)
(* object in the heap).  A call yields one record per term with the        *)
(* arguments the formula is evaluated at; sqrt, exp, the Laguerre          *)
(* polynomial and the spherical harmonic themselves are library functions. *)
(***************************************************************************)
Closure(name, self, ref, a0, real) ==
    [name |-> name, self |-> self, ref |-> ref, a0 |-> a0, real |-> real]

NoFn == Closure("none", NoPsi, "none", NaN, FALSE)

\* `self = self.normalize()`: the local name self is bound to the new object;
\* the object the caller passed stays as it is
RebindInPlace(h, o, new) == [heap |-> [h EXCEPT ![o] = new], self |-> new]

Rebind(h, o, new) == [heap |-> h, self |-> new]

\* Psi.R._R(const, n, l, a0)(r)
R_term(const, n, l, a0, r) ==
    [const |-> const, n |-> n, l |-> l, harmonic |-> <<>>,
     expArg |-> RNeg(RDiv(r, RMul(RInt(n), a0))),
     powArg |-> RDiv(RMul(RInt(2), r), RMul(RInt(n), a0)), powExp |-> l,
     lagDeg |-> n - l - 1, lagAlpha |-> 2 * l + 1, lagArg |-> r]

\* Psi.wave_function._wave_function(const, n, l, ml, a0)(r, theta, phi)
wave_function_term(const, n, l, ml, a0, r) ==
    [const |-> const, n |-> n, l |-> l, harmonic |-> <<ml, l>>,
     expArg |-> RNeg(RDiv(r, RMul(RInt(n), a0))),
     powArg |-> RDiv(RMul(RInt(2), r), RMul(RInt(n), a0)), powExp |-> l,
     lagDeg |-> n - l - 1, lagAlpha |-> 2 * l + 1, lagArg |-> r]

\* the sum over range(len(self.const)), or the single term of a scalar state
R_terms(self, a0, r) ==
    [i \in DOMAIN self.const.elems |->
        R_term(self.const.elems[i], self.n.elems[i], self.l.elems[i], a0, r)]

wave_function_terms(self, a0, r) ==
    [i \in DOMAIN self.const.elems |->
        wave_function_term(self.const.elems[i], self.n.elems[i], self.l.elems[i],
                           self.ml.elems[i], a0, r)]

\* Psi.R
R(h, o, a0) ==
    LET f == Rebind(h, o, normalize(h[o]))
    IN  [heap |-> f.heap, fn |-> Closure("R", f.self, "none", a0, FALSE)]

\* Psi.P_rad: the lambda keeps the caller's object and calls self.R(a0) per call
P_rad(h, o, a0) == [heap |-> h, fn |-> Closure("P_rad", NoPsi, o, a0, FALSE)]

\* Psi.wave_function
wave_function(h, o, a0) ==
    LET f == Rebind(h, o, normalize(h[o]))
    IN  [heap |-> f.heap, fn |-> Closure("wave_function", f.self, "none", a0, FALSE)]

\* Psi.wave_function_prob: the lambda keeps the caller's object and calls
\* self.wave_function(a0) per call
wave_function_prob(h, o, a0, real) ==
    [heap |-> h, fn |-> Closure("wave_function_prob", NoPsi, o, a0, real)]

\* calling a returned callable at radius r
call(h, f, r) ==
    IF f.name = "R" THEN [heap |-> h, terms |-> R_terms(f.self, f.a0, r)]
    ELSE IF f.name = "wave_function"
         THEN [heap |-> h, terms |-> wave_function_terms(f.self, f.a0, r)]
    ELSE IF f.name = "P_rad"
         THEN LET g == R(h, f.ref, f.a0)
              IN  [heap |-> g.heap, terms |-> R_terms(g.fn.self, g.fn.a0, r)]
    ELSE LET g == wave_function(h, f.ref, f.a0)
         IN  [heap |-> g.heap, terms |-> wave_function_terms(g.fn.self, g.fn.a0, r)]


(***************************************************************************)
(* graph: clean_data                                                       *)
(***************************************************************************)
\* np.max(v): nan if any element is nan, else the largest element
np_max(v) ==
    IF \E i \in DOMAIN v : v[i] = NaN THEN NaN
    ELSE CHOOSE m \in {v[i] : i \in DOMAIN v} : \A j \in DOMAIN v : ~RLess(m, v[j])

\* np.where(v < epsilon)[0]
np_where_leq(v, epsilon) == {i \in DOMAIN v : ~RLess(epsilon, v[i])}

np_where_less(v, epsilon) == {i \in DOMAIN v : RLess(v[i], epsilon)}

\* np.delete(a, zeros): a without the positions in zeros, order kept
np_delete(a, zeros) ==
    LET F[i \in 0..Len(a)] ==
            IF i = 0 THEN <<>>
            ELSE IF i \in zeros THEN F[i - 1] ELSE Append(F[i - 1], a[i])
    IN  F[Len(a)]

Cleaned(out) == [status |-> "ok", out |-> out]

\* np.max of an empty array raises ValueError
CleanRaise == [status |-> "ValueError", out |-> <<>>]

\* value / np.max(value)
rescale(value) == [i \in DOMAIN value |-> RDiv(value[i], np_max(value))]

\* quantum_psi.graph.clean_data(value, *coord, epsilon, normalize, norm_value)
clean_data_raw_threshold(value, coord, epsilon, normalize_, norm_value) ==
    IF normalize_ /\ value = <<>> THEN CleanRaise
    ELSE LET new_value == IF normalize_ /\ norm_value THEN rescale(value) ELSE value
             zeros == np_where_less(new_value, epsilon)
         IN  Cleaned(<<np_delete(new_value, zeros)>>
                     \o [j \in DOMAIN coord |-> np_delete(coord[j], zeros)])

clean_data(value, coord, epsilon, normalize_, norm_value) ==
    IF normalize_ /\ value = <<>> THEN CleanRaise
    ELSE LET new_value == IF normalize_ THEN rescale(value) ELSE value
             zeros == np_where_less(new_value, epsilon)
         IN  IF norm_value
             THEN Cleaned(<<np_delete(new_value, zeros)>>
                          \o [j \in DOMAIN coord |-> np_delete(coord[j], zeros)])
             ELSE Cleaned(<<np_delete(value, zeros)>>
                          \o [j \in DOMAIN coord |-> np_delete(coord[j], zeros)])

\* quantum_psi._graph.clean_data(value, epsilon, normalize, *coord)
clean_data_0(value, epsilon, normalize_, coord) ==
    IF normalize_ /\ value = <<>> THEN CleanRaise
    ELSE LET value_ == IF normalize_ THEN rescale(value) ELSE value
             zeros == np_where_less(value_, epsilon)
         IN  Cleaned(<<np_delete(value_, zeros)>>
                     \o [j \in DOMAIN coord |-> np_delete(coord[j], zeros)])


(***************************************************************************)
(* graph: sphere_points, sph2rec, gen_data, plot_data.  Angles are kept as *)
(* rational multiples of pi; the uniform draws are taken among the numbers *)
(* whose cube root, arc cosine, sine and cosine are rational.              *)
(***************************************************************************)
\* np.cbrt(u) for a draw u that is the cube of a rational
np_cbrt(u) ==
    LET root(m) == CHOOSE a \in 0..m : a * a * a = m
    IN  <<root(u[1]), root(u[2])>>

\* np.arccos(x) / pi
np_arccos(x) ==
    IF x = RInt(-1) THEN RInt(1)
    ELSE IF x = RInt(0) THEN <<1, 2>>
    ELSE RInt(0)

\* the number of quarter turns in the angle a * pi, a a multiple of 1/2
QuarterTurns(a) == ((2 * a[1]) \div a[2]) % 4

\* np.cos(a * pi)
np_cos(a) == RInt(<<1, 0, -1, 0>>[QuarterTurns(a) + 1])

\* np.sin(a * pi)
np_sin(a) == RInt(<<0, 1, 0, -1>>[QuarterTurns(a) + 1])

\* sphere_points(rmax, n_points): draws holds the three random_sample(n_points)
\* arrays, one record [u, u2, v] per point
sphere_points_wide_theta(rmax, draws) ==
    << [i \in DOMAIN draws |-> RMul(rmax, np_cbrt(draws[i].u))],
       [i \in DOMAIN draws |-> RMul(draws[i].u2, RInt(4))],
       [i \in DOMAIN draws |-> np_arccos(RAdd(RMul(draws[i].v, RInt(2)), RInt(-1)))] >>

sphere_points(rmax, draws) ==
    << [i \in DOMAIN draws |-> RMul(rmax, np_cbrt(draws[i].u))],
       [i \in DOMAIN draws |-> RMul(draws[i].u2, RInt(2))],
       [i \in DOMAIN draws |-> np_arccos(RAdd(RMul(draws[i].v, RInt(2)), RInt(-1)))] >>

\* sph2rec(r, theta, phi)
sph2rec(r, theta, phi) ==
    << [i \in DOMAIN r |-> RMul(RMul(r[i], np_cos(theta[i])), np_sin(phi[i]))],
       [i \in DOMAIN r |-> RMul(RMul(r[i], np_sin(theta[i])), np_sin(phi[i]))],
       [i \in DOMAIN r |-> RMul(r[i], np_cos(phi[i]))] >>

\* gen_data(psi, rmax, n_points, a0, xyz); value holds what
\* psi.wave_function_prob(a0)(r, theta, phi) gives at the sampled points
gen_data(value, rmax, draws, xyz) ==
    LET s == sphere_points(rmax, draws)
    IN  IF xyz THEN sph2rec(s[1], s[2], s[3]) \o <<value>>
        ELSE <<s[1], s[2], s[3], value>>

\* quantum_psi.graph.plot_data(psi, rmax, n_points, a0, xyz, **kwargs)
plot_data_value_first(value, rmax, draws, xyz, epsilon, normalize_, norm_value) ==
    LET g == gen_data(value, rmax, draws, xyz)
    IN  clean_data(g[4], SubSeq(g, 1, 3), epsilon, normalize_, norm_value)

plot_data(value, rmax, draws, xyz, epsilon, normalize_, norm_value) ==
    LET g == gen_data(value, rmax, draws, xyz)
        c == clean_data(g[4], SubSeq(g, 1, 3), epsilon, normalize_, norm_value)
    IN  IF c.status = "ok" THEN Cleaned(Tail(c.out) \o <<Head(c.out)>>) ELSE c

\* quantum_psi._graph.plot_data(self, rmax, npoints, a0, xyz, epsilon, normalize)
plot_data_0(value, rmax, draws, xyz, epsilon, normalize_) ==
    LET g == gen_data(value, rmax, draws, xyz)
        c == clean_data_0(g[4], epsilon, normalize_, SubSeq(g, 1, 3))
    IN  IF c.status = "ok" THEN Cleaned(Tail(c.out) \o <<Head(c.out)>>) ELSE c


(***************************************************************************)
(* The state machine of the state algebra: a caller holding two states     *)
(* under the names p and q, calling one operation at a time and either     *)
(* binding p to the state the call returned or dropping the result.  The   *)
(* caller works on p: q is the other operand of + and -, on either side.   *)
(*   numpy : the numpy build, "strict" (>= 1.24) or "legacy"               *)
(*   heap  : the caller's Psi objects, by the name bound to each           *)
(*   res   : the last call: operation, operands and what it gave           *)
(*   fn    : the callable the last evaluator returned                      *)
(*   steps : how often p has been rebound                                  *)
(*   data  : the arguments of clean_data (SpecFilter)                      *)
(***************************************************************************)
Names == {"p", "q"}

\* quantum numbers (n, l, ml, ms) of the basis states a run constructs
QN == { <<1, 0, 0, <<1, 2>>>>, <<2, 1, 0, <<-1, 2>>>> }

\* Psi(n, l, ml, ms): scalar arguments, const = 1
Construct(t) == Psi(Scalar(t[1]), Scalar(t[2]), Scalar(t[3]), Scalar(t[4]), Scalar(RInt(1)))

\* Psi(n, l, ml, ms, const) with equal-length arrays as arguments
ConstructSeq(ts) ==
    Psi(Array([i \in DOMAIN ts |-> ts[i][1]]), Array([i \in DOMAIN ts |-> ts[i][2]]),
        Array([i \in DOMAIN ts |-> ts[i][3]]), Array([i \in DOMAIN ts |-> ts[i][4]]),
        Array([i \in DOMAIN ts |-> RInt(1)]))

SeqInputs ==
    { << <<2, 1, 0, <<-1, 2>>>>, <<2, 1, -1, <<1, 2>>>>, <<2, 1, 0, <<1, 2>>>> >>,
      << <<2, 1, 0, <<-1, 2>>>>, <<3, 0, 0, <<1, 2>>>>, <<2, 1, -1, <<1, 2>>>> >> }

\* a superposition of two terms given to the constructor
PairInputs == { << <<2, 1, 0, <<-1, 2>>>>, <<1, 0, 0, <<1, 2>>>> >> }

\* the Bohr radius arguments: the default 0.529, and 1
A0s == { <<529, 1000>>, RInt(1) }

Radii == { RInt(0), RInt(1) }

Numbers == { Num("int", RInt(2)), Num("float", <<-1, 2>>), Num("int", RInt(0)) }

\* divisors are nonzero: dividing by 0 raises ZeroDivisionError for a Python
\* scalar coefficient and gives inf or nan for a numpy one
Divisors == { Num("int", RInt(2)), Num("float", <<-1, 2>>) }

\* operands that are neither int, float nor Psi
NonNumbers == { Other("str"), Num("complex", RInt(1)), Num("bool", RInt(1)),
                Num("float64", <<1, 2>>) }

\* all five attributes are scalars, or numeric arrays of one length
WellFormed(s) ==
    /\ s.const.kind \in {"scalar", "array"}
    /\ {s.n.kind, s.l.kind, s.ml.kind, s.ms.kind} = {s.const.kind}
    /\ {Len(s.n.elems), Len(s.l.elems), Len(s.ml.elems), Len(s.ms.elems)}
          = {Len(s.const.elems)}

Result(op, self, other, status, psi, val, terms, out) ==
    [op |-> op, self |-> self, other |-> other, status |-> status, psi |-> psi,
     val |-> val, terms |-> terms, out |-> out]

NoRes == Result("none", "none", NoOperand, "ok", NoPsi, NaN, <<>>, <<>>)

NoData == [value |-> <<>>, coord |-> <<>>, epsilon |-> NaN,
           normalize |-> FALSE, norm_value |-> FALSE]

Init ==
    /\ numpy \in {"strict", "legacy"}
    /\ heap \in [Names -> {Construct(t) : t \in QN}
                          \cup {ConstructSeq(ts) : ts \in SeqInputs \cup PairInputs}]
    /\ Len(heap["p"].const.elems) # 2
    /\ Len(heap["q"].const.elems) # 3
    /\ res = NoRes
    /\ fn = NoFn
    /\ steps = 0
    /\ data = NoData

\* the caller is between two calls
Idle == res = NoRes

\* a call that returns a Psi or raises
Returns(op, x, other, o) ==
    /\ Idle
    /\ res' = Result(op, x, other, o.status, o.psi, NaN, <<>>, <<>>)
    /\ UNCHANGED <<numpy, heap, fn, steps, data>>

\* heap[x] * other
Mul ==
    \E x \in {"p"}, other \in Numbers \cup NonNumbers \cup {Obj(heap[y]) : y \in Names} :
        Returns("mul", x, other, mul(heap[x], other))

\* heap[x] / other
TrueDiv ==
    \E x \in {"p"}, other \in Divisors \cup NonNumbers \cup {Obj(heap[y]) : y \in Names} :
        Returns("truediv", x, other, truediv(heap[x], other))

\* heap[x] + other
Add ==
    \E x \in Names, other \in {Obj(heap[y]) : y \in Names} \cup Numbers \cup NonNumbers :
        Returns("add", x, other, add(heap[x], other))

\* heap[x] - other
Sub ==
    \E x \in Names, other \in {Obj(heap[y]) : y \in Names} \cup Numbers \cup NonNumbers :
        Returns("sub", x, other, sub(heap[x], other))

\* heap[x].normalize()
Normalize ==
    \E x \in {"p"} : Returns("normalize", x, NoOperand, Return(normalize(heap[x])))

\* heap[x].r_bohr(a0)
RBohr ==
    /\ Idle
    /\ \E x \in {"p"}, a0 \in A0s :
        LET o == r_bohr(heap[x], a0)
        IN  res' = Result("r_bohr", x, Num("float", a0), o.status, NoPsi, o.val, <<>>, <<>>)
    /\ UNCHANGED <<numpy, heap, fn, steps, data>>

\* an evaluator returns a callable
Evaluator(op, x, a0, o) ==
    /\ Idle
    /\ heap' = o.heap
    /\ fn' = o.fn
    /\ res' = Result(op, x, Num("float", a0), "ok", NoPsi, NaN, <<>>, <<>>)
    /\ UNCHANGED <<numpy, steps, data>>

EvalR == \E x \in {"p"}, a0 \in A0s : Evaluator("R", x, a0, R(heap, x, a0))

EvalPRad == \E x \in {"p"}, a0 \in A0s : Evaluator("P_rad", x, a0, P_rad(heap, x, a0))

EvalWaveFunction ==
    \E x \in {"p"}, a0 \in A0s :
        Evaluator("wave_function", x, a0, wave_function(heap, x, a0))

EvalWaveFunctionProb ==
    \E x \in {"p"}, a0 \in A0s, real \in BOOLEAN :
        Evaluator("wave_function_prob", x, a0, wave_function_prob(heap, x, a0, real))

\* the caller calls the callable it was handed
Call ==
    /\ fn # NoFn
    /\ res.op # "call"
    /\ \E r \in Radii :
          LET o == call(heap, fn, r)
          IN  /\ heap' = o.heap
              /\ res' = Result("call", res.self, Num("float", r), "ok", NoPsi, NaN,
                               o.terms, <<>>)
    /\ UNCHANGED <<numpy, fn, steps, data>>

\* p = <the state the last call returned>
Assign ==
    /\ res.op \in {"mul", "truediv", "add", "sub", "normalize"}
    /\ res.status = "ok"
    /\ WellFormed(res.psi)
    /\ steps < MaxAssign
    /\ heap' = [heap EXCEPT !["p"] = res.psi]
    /\ res' = NoRes
    /\ steps' = steps + 1
    /\ UNCHANGED <<numpy, fn, data>>

\* the caller drops what the last call gave
Drop ==
    /\ ~Idle
    /\ res' = NoRes
    /\ fn' = NoFn
    /\ UNCHANGED <<numpy, heap, steps, data>>

Next ==
    \/ Mul
    \/ TrueDiv
    \/ Add
    \/ Sub
    \/ Normalize
    \/ RBohr
    \/ EvalR
    \/ EvalPRad
    \/ EvalWaveFunction
    \/ EvalWaveFunctionProb
    \/ Call
    \/ Assign
    \/ Drop

Spec == Init /\ [][Next]_vars


(***************************************************************************)
(* The state machine of the sample filter: the caller holds the arrays of  *)
(* one sampling (data) and hands them to clean_data.                       *)
(***************************************************************************)
\* probability densities: non-negative, some below the default epsilon
Values == { RInt(0), <<1, 2000>>, RInt(1), RInt(2), RInt(4) }

\* the default epsilon 1E-3, and 0.5
Epsilons == { <<1, 1000>>, <<1, 2>> }

\* m coordinate arrays of k samples, every coordinate a different number
Coords(k, m) == [j \in 1..m |-> [i \in 1..k |-> RInt(10 * j + i)]]

Samples ==
    { [value |-> v, coord |-> Coords(Len(v), m), epsilon |-> e,
       normalize |-> nz, norm_value |-> nv] :
         v \in UNION {[1..k -> Values] : k \in 0..MaxLen}, m \in {0, 1, 3},
         e \in Epsilons, nz \in BOOLEAN, nv \in BOOLEAN }

InitFilter ==
    /\ numpy \in {"strict", "legacy"}
    /\ heap = [x \in Names |-> NoPsi]
    /\ res = NoRes
    /\ fn = NoFn
    /\ steps = 0
    /\ data \in Samples

\* graph.clean_data(value, *coord, epsilon=, normalize=, norm_value=)
CleanData ==
    /\ Idle
    /\ LET o == clean_data(data.value, data.coord, data.epsilon, data.normalize,
                           data.norm_value)
       IN  res' = Result("clean_data", "none", NoOperand, o.status, NoPsi, NaN, <<>>, o.out)
    /\ UNCHANGED <<numpy, heap, fn, steps, data>>

\* _graph.clean_data(value, epsilon, normalize, *coord)
CleanData0 ==
    /\ Idle
    /\ LET o == clean_data_0(data.value, data.epsilon, data.normalize, data.coord)
       IN  res' = Result("clean_data_0", "none", NoOperand, o.status, NoPsi, NaN, <<>>, o.out)
    /\ UNCHANGED <<numpy, heap, fn, steps, data>>

NextFilter ==
    \/ CleanData
    \/ CleanData0
    \/ Drop

SpecFilter == InitFilter /\ [][NextFilter]_vars


(***************************************************************************)
(* The state machine of the sampling: the caller holds the arguments of    *)
(* one plot_data call together with what the random generator and the      *)
(* density give during it (data), and calls the functions of graph.        *)
(***************************************************************************)
\* one sampled point: the three uniform draws in [0, 1) and the density there
SamplePoints ==
    { [u |-> RInt(0), u2 |-> RInt(0), v |-> RInt(0), density |-> RInt(0)],
      [u |-> <<1, 8>>, u2 |-> <<1, 4>>, v |-> <<1, 2>>, density |-> <<1, 2000>>],
      [u |-> <<27, 64>>, u2 |-> RInt(0), v |-> <<1, 2>>, density |-> RInt(1)],
      [u |-> <<1, 8>>, u2 |-> <<3, 4>>, v |-> RInt(0), density |-> RInt(4)] }

Rmaxs == { RInt(1), RInt(5) }

Samplings ==
    { [value |-> [i \in DOMAIN pts |-> pts[i].density], coord |-> <<>>,
       epsilon |-> e, normalize |-> nz, norm_value |-> nv,
       draws |-> [i \in DOMAIN pts |-> [u |-> pts[i].u, u2 |-> pts[i].u2, v |-> pts[i].v]],
       rmax |-> rmax, xyz |-> xyz] :
         pts \in UNION {[1..k -> SamplePoints] : k \in 0..MaxLen}, rmax \in Rmaxs,
         xyz \in BOOLEAN, e \in Epsilons, nz \in BOOLEAN, nv \in BOOLEAN }

InitPlot ==
    /\ numpy \in {"strict", "legacy"}
    /\ heap = [x \in Names |-> NoPsi]
    /\ res = NoRes
    /\ fn = NoFn
    /\ steps = 0
    /\ data \in Samplings

\* graph.sphere_points(rmax, n_points)
SpherePoints ==
    /\ Idle
    /\ res' = Result("sphere_points", "none", NoOperand, "ok", NoPsi, NaN, <<>>,
                     sphere_points(data.rmax, data.draws))
    /\ UNCHANGED <<numpy, heap, fn, steps, data>>

\* graph.gen_data(psi, rmax, n_points, a0, xyz)
GenData ==
    /\ Idle
    /\ res' = Result("gen_data", "none", NoOperand, "ok", NoPsi, NaN, <<>>,
                     gen_data(data.value, data.rmax, data.draws, data.xyz))
    /\ UNCHANGED <<numpy, heap, fn, steps, data>>

\* graph.plot_data(psi, rmax, n_points, a0, xyz, epsilon=, normalize=, norm_value=)
PlotData ==
    /\ Idle
    /\ LET o == plot_data(data.value, data.rmax, data.draws, data.xyz, data.epsilon,
                          data.normalize, data.norm_value)
       IN  res' = Result("plot_data", "none", NoOperand, o.status, NoPsi, NaN, <<>>, o.out)
    /\ UNCHANGED <<numpy, heap, fn, steps, data>>

\* _graph.plot_data(self, rmax, npoints, a0, xyz, epsilon, normalize)
PlotData0 ==
    /\ Idle
    /\ LET o == plot_data_0(data.value, data.rmax, data.draws, data.xyz, data.epsilon,
                            data.normalize)
       IN  res' = Result("plot_data_0", "none", NoOperand, o.status, NoPsi, NaN, <<>>, o.out)
    /\ UNCHANGED <<numpy, heap, fn, steps, data>>

NextPlot ==
    \/ SpherePoints
    \/ GenData
    \/ PlotData
    \/ PlotData0
    \/ Drop

SpecPlot == InitPlot /\ [][NextPlot]_vars


(***************************************************************************)
(* The state machine of the script: states built with coefficients of      *)
(* either sign, multiplied by a number on either side and printed.         *)
(***************************************************************************)
\* coefficients: the script's sqrt(2/3) and -sqrt(1/3) to four digits, 0, 1, -0.5
Coefs == { <<40, 49>>, <<-15, 26>>, RInt(0), RInt(1), <<-1, 2>> }

\* the quantum numbers of the i-th term of a constructed superposition
ScriptTerms ==
    << <<2, 1, 0, <<-1, 2>>>>, <<2, 1, -1, <<1, 2>>>>, <<1, 0, 0, <<1, 2>>>>,
       <<3, 0, 0, <<1, 2>>>> >>

ScriptTerm(i) == ScriptTerms[((i - 1) % Len(ScriptTerms)) + 1]

\* Psi(n, l, ml, ms, const) with a scalar coefficient
ConstructConst(t, c) ==
    Psi(Scalar(t[1]), Scalar(t[2]), Scalar(t[3]), Scalar(t[4]), Scalar(c))

\* Psi(n, l, ml, ms, const) with arrays of one length
ConstructArrays(cs) ==
    Psi(Array([i \in DOMAIN cs |-> ScriptTerm(i)[1]]),
        Array([i \in DOMAIN cs |-> ScriptTerm(i)[2]]),
        Array([i \in DOMAIN cs |-> ScriptTerm(i)[3]]),
        Array([i \in DOMAIN cs |-> ScriptTerm(i)[4]]), Array(cs))

ScriptStates ==
    {ConstructConst(t, c) : t \in QN, c \in Coefs}
    \cup {ConstructArrays(cs) : cs \in UNION {[1..k -> Coefs] : k \in 1..MaxLen}}

InitScript ==
    /\ numpy \in {"strict", "legacy"}
    /\ heap \in {[x \in Names |-> IF x = "p" THEN s
                                   ELSE ConstructConst(ScriptTerm(2), RInt(1))] :
                    s \in ScriptStates}
    /\ res = NoRes
    /\ fn = NoFn
    /\ steps = 0
    /\ data = NoData

\* other * p
LeftMul ==
    \E x \in {"p"}, other \in Numbers \cup NonNumbers :
        Returns("rmul", x, other, left_mul(other, heap[x]))

\* print(p)
Repr ==
    /\ Idle
    /\ \E x \in {"p"} :
          LET o == repr(heap[x])
          IN  res' = Result("repr", x, NoOperand, o.status, NoPsi, NaN, <<>>, o.out)
    /\ UNCHANGED <<numpy, heap, fn, steps, data>>

NextScript ==
    \/ LeftMul
    \/ Mul
    \/ Repr
    \/ Drop

SpecScript == InitScript /\ [][NextScript]_vars


(***************************************************************************)
(* Properties of the state algebra.                                        *)
(***************************************************************************)
\* the terms of a state, in term order: <<n, l, ml, ms, coefficient>>
TermList(s) ==
    [i \in DOMAIN s.const.elems |->
        <<s.n.elems[i], s.l.elems[i], s.ml.elems[i], s.ms.elems[i], s.const.elems[i]>>]

\* the same terms with every coefficient replaced by f of it
SameNumbers(s, t) ==
    /\ t.n = s.n
    /\ t.l = s.l
    /\ t.ml = s.ml
    /\ t.ms = s.ms
    /\ t.const.kind = s.const.kind
    /\ Len(t.const.elems) = Len(s.const.elems)

SumOfSquares(s) == RSum([i \in DOMAIN s.const.elems |-> RMul(s.const.elems[i], s.const.elems[i])])

\* the state the last call was made on
Operand == heap[res.self]

\* C1: Add(a, b) succeeds for every pair of states and returns a's terms followed
\* by b's terms, coefficients unchanged, so the term counts add up.
C1_AddConcatenates ==
    (res.op = "add" /\ res.other.type = "Psi") =>
        /\ res.status = "ok"
        /\ WellFormed(res.psi)
        /\ TermList(res.psi) = TermList(Operand) \o TermList(res.other.psi)
        /\ Len(TermList(res.psi)) = Len(TermList(Operand)) + Len(TermList(res.other.psi))

\* C2: after Normalize(s), s with a nonzero coefficient, the squares of the
\* coefficients of the returned state sum to 1.
C2_NormalizedSumsToOne ==
    (/\ res.op = "normalize"
     /\ \E i \in DOMAIN Operand.const.elems : Operand.const.elems[i][1] # 0) =>
        SumOfSquares(res.psi) = RInt(1)

C4_BohrRadius ==
    res.op = "r_bohr" =>
        LET ns == Operand.n.elems
        IN  IF \E i, j \in DOMAIN ns : ns[i] # ns[j]
            THEN res.status = "Exception"
            ELSE /\ res.status = "ok"
                 /\ res.val = RMul(RInt(ns[1] * ns[1]), res.other.v)

C6_SubtractIsAddOfNegated ==
    (res.op = "sub" /\ res.other.type = "Psi") =>
        LET negated == mul(res.other.psi, Num("int", RInt(-1)))
            sum == add(Operand, Obj(negated.psi))
        IN  /\ negated.status = "ok"
            /\ res.status = sum.status
            /\ res.psi = sum.psi
            /\ (res.status = "ok" /\ WellFormed(res.psi)) =>
                  LET a == TermList(Operand)
                      b == TermList(res.other.psi)
                      t == TermList(res.psi)
                  IN  /\ Len(t) = Len(a) + Len(b)
                      /\ \A i \in DOMAIN a : t[i] = a[i]
                      /\ \A i \in DOMAIN b :
                            t[Len(a) + i] = <<b[i][1], b[i][2], b[i][3], b[i][4],
                                              RDiv(b[i][5], RInt(-1))>>

\* two superpositions were subtracted
C6_Witness ==
    /\ res.op = "sub"
    /\ res.other.type = "Psi"
    /\ res.status = "ok"
    /\ Len(res.psi.const.elems) >= 4
    /\ res.self = "p"
    /\ res.other.psi # Operand

NotReal(type) == type \in {"str", "complex", "Psi"}

\* C8: ScalarMultiply and ScalarDivide raise InvalidOperand when the second
\* operand is not a real number, Add and Subtract when it is not a state; no
\* state is returned.
C8_InvalidOperandRaises ==
    (\/ res.op \in {"mul", "truediv"} /\ NotReal(res.other.type)
     \/ res.op \in {"add", "sub"} /\ res.other.type # "Psi") =>
        /\ res.status = "Exception"
        /\ res.psi = NoPsi

\* a state was multiplied by a state, and a number was added to a state
C8_Witness ==
    \/ res.op = "mul" /\ res.other.type = "Psi" /\ res.status = "Exception"
    \/ res.op = "add" /\ res.other.type = "int" /\ res.status = "Exception"


(***************************************************************************)
(* Properties of the sample filter.                                        *)
(***************************************************************************)
\* the largest value of the sampling
Largest == CHOOSE m \in {data.value[i] : i \in DOMAIN data.value} :
              \A i \in DOMAIN data.value : ~RLess(m, data.value[i])

\* the values the threshold is applied to
Rescaled ==
    IF data.normalize THEN [i \in DOMAIN data.value |-> RDiv(data.value[i], Largest)]
    ELSE data.value

\* the positions that are not strictly below epsilon, in increasing order
Survivors ==
    LET below(i) == RLess(Rescaled[i], data.epsilon)
        keep(i) == ~below(i)
    IN  SelectSeq([i \in DOMAIN data.value |-> i], keep)

\* C9: FilterSamples removes exactly the positions whose (rescaled, when
\* normalize is set) value is strictly below epsilon, the same positions in value
\* and in every coordinate array, and keeps the order of the rest; with
\* normalize and epsilon = 0.5 an input with one largest element and all others
\* below half of it yields that element and its coordinates alone.
C9_FilterRemovesBelowEpsilon ==
    (res.op \in {"clean_data", "clean_data_0"} /\ res.status = "ok") =>
        LET returned == IF res.op = "clean_data" /\ ~data.norm_value THEN data.value
                        ELSE Rescaled
        IN  /\ Len(res.out) = 1 + Len(data.coord)
            /\ \A k \in DOMAIN res.out : Len(res.out[k]) = Len(Survivors)
            /\ \A j \in DOMAIN Survivors :
                  /\ res.out[1][j] = returned[Survivors[j]]
                  /\ \A m \in DOMAIN data.coord :
                        res.out[1 + m][j] = data.coord[m][Survivors[j]]
            /\ (/\ data.normalize
                /\ data.epsilon = <<1, 2>>
                /\ \E i \in DOMAIN data.value :
                      /\ data.value[i] = Largest
                      /\ \A j \in DOMAIN data.value \ {i} :
                            RLess(data.value[j], RDiv(Largest, RInt(2)))) =>
                  /\ Len(res.out[1]) = 1
                  /\ \A m \in DOMAIN data.coord :
                        \E i \in DOMAIN data.value :
                            /\ data.value[i] = Largest
                            /\ res.out[1 + m] = <<data.coord[m][i]>>

\* a sampling lost its first sample and kept two, one of them exactly at epsilon
C9_Witness ==
    /\ res.op = "clean_data"
    /\ res.status = "ok"
    /\ data.normalize
    /\ Len(data.coord) = 3
    /\ Len(data.value) = 3
    /\ Survivors = <<2, 3>>
    /\ \E j \in DOMAIN Survivors : Rescaled[Survivors[j]] = data.epsilon

\* C10: with normalize set and normalizedOutput not, the surviving positions are
\* those decided on the rescaled values, as with normalizedOutput set, and the
\* returned values are the original ones at those positions.
C10_OriginalValuesReturned ==
    (/\ res.op = "clean_data"
     /\ res.status = "ok"
     /\ data.normalize
     /\ ~data.norm_value) =>
        LET normalized == clean_data(data.value, data.coord, data.epsilon, TRUE, TRUE)
        IN  /\ Len(res.out[1]) = Len(Survivors)
            /\ \A j \in DOMAIN Survivors : res.out[1][j] = data.value[Survivors[j]]
            /\ Len(normalized.out[1]) = Len(res.out[1])
            /\ \A k \in DOMAIN res.out : k > 1 => res.out[k] = normalized.out[k]

\* the rescaled values drop a sample that the original values would have kept
C10_Witness ==
    /\ res.op = "clean_data"
    /\ res.status = "ok"
    /\ data.normalize
    /\ ~data.norm_value
    /\ Len(data.coord) = 3
    /\ Len(Survivors) < Len(data.value)
    /\ Len(Survivors) >= 2
    /\ \E i \in DOMAIN data.value :
          RLess(Rescaled[i], data.epsilon) /\ ~RLess(data.value[i], data.epsilon)
    /\ res.out[1] # Rescaled

(***************************************************************************)
(* Properties of the sampling.                                             *)
(***************************************************************************)
\* the coordinates gen_data gives for the sampled points, and their number
Generated == gen_data(data.value, data.rmax, data.draws, data.xyz)

n_points == Len(data.draws)

\* C11: PlotData returns FilterSamples applied to the output of GenerateSamples
\* with the caller's epsilon, normalize and normalizedOutput, reordered as
\* (coord1, coord2, coord3, value): four arrays of one length, at most nPoints,
\* in which position j of every array belongs to the same sampled point.
C11_PlotDataComposes ==
    (res.op \in {"plot_data", "plot_data_0"} /\ res.status = "ok") =>
        LET filtered == IF res.op = "plot_data"
                        THEN clean_data(Generated[4], SubSeq(Generated, 1, 3),
                                        data.epsilon, data.normalize, data.norm_value)
                        ELSE clean_data_0(Generated[4], data.epsilon, data.normalize,
                                          SubSeq(Generated, 1, 3))
            returned == IF res.op = "plot_data" /\ ~data.norm_value THEN data.value
                        ELSE Rescaled
        IN  /\ filtered.status = "ok"
            /\ res.out = <<filtered.out[2], filtered.out[3], filtered.out[4],
                           filtered.out[1]>>
            /\ Len(res.out) = 4
            /\ \A k \in 1..4 : Len(res.out[k]) = Len(Survivors)
            /\ Len(Survivors) <= n_points
            /\ \A j \in DOMAIN Survivors :
                  /\ res.out[4][j] = returned[Survivors[j]]
                  /\ \A k \in 1..3 : res.out[k][j] = Generated[k][Survivors[j]]

\* a rectangular sampling of three points lost one of them and kept two, whose
\* original densities are returned
C11_Witness ==
    /\ res.op = "plot_data"
    /\ res.status = "ok"
    /\ data.xyz
    /\ data.normalize
    /\ ~data.norm_value
    /\ n_points = 3
    /\ Len(Survivors) = 2
    /\ Survivors # <<1, 2>>
    /\ res.out[1] # res.out[2]
    /\ res.out[4] # Rescaled

\* C14: SpherePoints returns three arrays of length exactly nPoints with every r
\* in [0, rmax], every theta in [0, 2 pi) and every phi in [0, pi], whatever the
\* uniform draws in [0, 1) are.
C14_SpherePointsInRange ==
    (res.op = "sphere_points") =>
        /\ Len(res.out) = 3
        /\ \A k \in 1..3 : Len(res.out[k]) = n_points
        /\ \A i \in 1..n_points :
              /\ ~RLess(res.out[1][i], RInt(0))
              /\ ~RLess(data.rmax, res.out[1][i])
              /\ ~RLess(res.out[2][i], RInt(0))
              /\ RLess(res.out[2][i], RInt(2))
              /\ ~RLess(res.out[3][i], RInt(0))
              /\ ~RLess(RInt(1), res.out[3][i])

\* three points were drawn: one at the centre, one at the pole phi = pi and one
\* three quarters of a turn round
C14_Witness ==
    /\ res.op = "sphere_points"
    /\ n_points = 3
    /\ \E i \in 1..3 : res.out[1][i] = RInt(0)
    /\ \E i \in 1..3 : res.out[1][i] # RInt(0) /\ res.out[3][i] = RInt(1)
    /\ \E i \in 1..3 : res.out[2][i] = <<3, 2>>

(***************************************************************************)
(* Properties of the text and of multiplication on the left.               *)
(***************************************************************************)
\* the positions of the terms of s with a nonzero coefficient, in term order
Displayed(s) ==
    LET nonzero(i) == s.const.elems[i] # RInt(0)
    IN  SelectSeq([i \in DOMAIN s.const.elems |-> i], nonzero)

\* m thousandths is a nearest 3-decimal number to |c|
NearestMilli(c, m) == 2 * Abs(1000 * Abs(c[1]) - m * c[2]) <= c[2]

\* C12: Render of a superposition lists the terms in term order, omits the terms
\* whose coefficient is exactly zero, shows the absolute value of each
\* coefficient with 3 decimal digits followed by the term's n, l, ml, ms, and
\* prefixes each displayed term after the first with " + " (positive) or " - "
\* (negative); coefficients sqrt(2/3), -sqrt(1/3) give 0.816 and 0.577, the
\* second joined by " - ".
C12_RenderListsTerms ==
    (res.op = "repr" /\ hasattr_iter(Operand.const)) =>
        LET s == Operand
            shown == Displayed(s)
        IN  /\ res.status = "ok"
            /\ Len(res.out) = Len(shown)
            /\ \A j \in DOMAIN shown :
                  LET i == shown[j]
                      c == s.const.elems[i]
                      t == res.out[j]
                  IN  /\ <<t.n, t.l, t.ml, t.ms>>
                            = <<s.n.elems[i], s.l.elems[i], s.ml.elems[i], s.ms.elems[i]>>
                      /\ t.number.sign = ""
                      /\ t.number.special = ""
                      /\ NearestMilli(c, t.number.milli)
                      /\ j > 1 => t.joiner = (IF RLess(RInt(0), c) THEN " + " ELSE " - ")
            /\ s.const.elems = << <<40, 49>>, <<-15, 26>> >> =>
                  /\ Len(res.out) = 2
                  /\ res.out[1].number.milli = 816
                  /\ res.out[2].number.milli = 577
                  /\ res.out[2].joiner = " - "

\* a three-term state with a zero coefficient in the middle was printed: two
\* terms, the second joined by " - " and rounded up to 0.577
C12_Witness ==
    /\ res.op = "repr"
    /\ Len(Operand.const.elems) = 3
    /\ Operand.const.elems[2] = RInt(0)
    /\ Len(res.out) = 2
    /\ res.out[2].joiner = " - "
    /\ res.out[2].number.milli = 577
    /\ res.out[2].ml = 0

\* C17: k * s and s * k either both raise or both return states with the same
\* quantum numbers and the same coefficients, for every state s and operand k.
C17_ReflectedMultiplySame ==
    (res.op = "rmul") =>
        LET o == mul(Operand, res.other)
        IN  /\ res.status = o.status
            /\ res.psi = o.psi

\* C19: the text of a superposition never starts with a joiner: the first
\* displayed term has no prefix or "- ", whichever terms are omitted, and the
\* joiners " + " and " - " stand only between two displayed terms.
C19_NoLeadingJoiner ==
    (res.op = "repr" /\ hasattr_iter(Operand.const) /\ res.out # <<>>) =>
        /\ res.out[1].joiner \in {"", "- "}
        /\ \A j \in DOMAIN res.out : j > 1 => res.out[j].joiner \in {" + ", " - "}

(***************************************************************************)
(* Properties of the state algebra and the evaluators, continued.          *)
(***************************************************************************)
\* the coefficients an evaluation used, in term order
Coefficients(terms) == [i \in DOMAIN terms |-> terms[i].const]

\* what the evaluator of the last call gives at the same radius for state t
\* bound to the same name
EvaluationOf(t) ==
    LET h == [heap EXCEPT ![res.self] = t]
        f == IF fn.name = "R" THEN R(h, res.self, fn.a0).fn
             ELSE IF fn.name = "wave_function" THEN wave_function(h, res.self, fn.a0).fn
             ELSE fn
    IN  call(h, f, res.other.v).terms

\* C13: normalizing an already normalized state does not change the sum of the
\* squared coefficients: sumsq(Normalize(Normalize(s))) = sumsq(Normalize(s))
\* for every state s with a nonzero coefficient.
C13_SecondNormalizeKeepsSum ==
    (/\ res.op = "normalize"
     /\ \E i \in DOMAIN Operand.const.elems : Operand.const.elems[i][1] # 0) =>
        SumOfSquares(normalize(res.psi)) = SumOfSquares(res.psi)

\* C15: in every radial term the Laguerre polynomial of degree n-l-1 and order
\* 2l+1 is evaluated at 2r/(n a0), the argument that is raised to the power l.
C15_LaguerreAtScaledArgument ==
    (res.op = "call") =>
        \A i \in DOMAIN res.terms :
            LET t == res.terms[i]
            IN  /\ t.lagDeg = t.n - t.l - 1
                /\ t.lagAlpha = 2 * t.l + 1
                /\ t.powArg = RDiv(RMul(RInt(2), res.other.v), RMul(RInt(t.n), fn.a0))
                /\ t.lagArg = t.powArg

\* C16: every state a successful ScalarMultiply, ScalarDivide, Add, Subtract or
\* Normalize returns has n, l, ml, ms and coeff of one length, position i of each
\* describing the same basis term.
C16_SequenceFormAligned ==
    (/\ res.op \in {"mul", "truediv", "add", "sub", "normalize"}
     /\ res.status = "ok") =>
        /\ WellFormed(res.psi)
        /\ \A i \in DOMAIN TermList(res.psi) :
              \E j \in DOMAIN TermList(Operand) \cup DOMAIN TermList(res.other.psi) :
                  LET t == TermList(res.psi)[i]
                      from == IF i <= Len(TermList(Operand)) THEN TermList(Operand)[j]
                              ELSE TermList(res.other.psi)[j]
                  IN  <<t[1], t[2], t[3], t[4]>> = <<from[1], from[2], from[3], from[4]>>

\* C18: the coefficients an evaluator uses do not depend on the scale of the
\* state: those of ScalarMultiply(s, k), k > 0, are those of s, and a single-term
\* state with a positive coefficient is evaluated with coefficient 1.
C18_EvaluationIgnoresScale ==
    (res.op = "call") =>
        /\ \A k \in {Num("int", RInt(2)), Num("float", <<1, 2>>)} :
              Coefficients(EvaluationOf(mul(Operand, k).psi)) = Coefficients(res.terms)
        /\ (/\ Operand.const.kind = "scalar"
            /\ RLess(RInt(0), Operand.const.elems[1])) =>
                 Coefficients(res.terms) = <<RInt(1)>>

====
